---- MODULE Spec2Model ----
(***************************************************************************)
(* Cards Against Humanity room: the shared store (rooms, room_players,     *)
(* rounds, submissions, player_hands with the constraints and policies of  *)
(* the repository's SQL files) and the browser clients that run            *)
(* GamePage.jsx against it.  Every await on the store is one atomic step   *)
(* of the client that issues it; clients interleave freely.                *)
(***************************************************************************)
EXTENDS Integers, Sequences, FiniteSets, TLC

\* ------------------------------------------------------------------ bounds
NumPlayers == 3      \* players in the room (room_players rows)
HandSize   == 1      \* target hand size; the code's literal is 10, scaled down
Spare      == 1      \* white cards of the deck beyond NumPlayers * HandSize
MaxRounds  == 1      \* rounds played (submitted to, resolved) from a fresh start
RotateRounds == 2    \* rounds played in the judge-rotation scenario
MaxScore   == 2      \* gameUtils.selectWinner is not called for a player at this score
MaxExcess  == 2      \* rows a stored hand holds beyond HandSize in the trimming scenario

\* ------------------------------------------------------- program constants
MinPlayers == 3      \* "Need at least 3 players to start"
RoomId     == 1      \* the room under study (useParams().roomId)
Host       == 1      \* rooms.party_leader: the creator, first to join

Players == 1..NumPlayers
Tabs    == {1, 2, 3}                            \* the browser tabs (clients)
Cards   == 1..(NumPlayers * HandSize + Spare)   \* white card ids

VARIABLES
  roomStatus,   \* rooms.status: "waiting" | "playing"
  members,      \* profile ids with a room_players row
  score,        \* room_players.score
  isJudge,      \* room_players.is_judge (advisory flag)
  rounds,       \* rounds rows in id order: [judge, status, winner]
  subs,         \* submissions rows in id order: [round, profile, card]
  hands,        \* player_hands rows: [room, profile, card]
  user,         \* client -> profile id (auth.uid() of the tab)
  pc,           \* client -> position in the handler it is running
  cache,        \* client -> React state: [status, players, flag, round, hand]
  loc,          \* client -> locals of the running handler
  won,          \* client -> judge argument of its last createActiveRound
                \*   call if that call's insert was accepted, else 0
  consumed      \* white cards removed from a hand by a submission since
                \*   the last startGame dealt
VARIABLE horizon \* the last round id the scenario plays (a model bound)
VARIABLE deck    \* white_cards of the room's deck (no handler writes them)

store == <<roomStatus, members, score, isJudge, rounds, subs, hands>>
vars  == <<roomStatus, members, score, isJudge, rounds, subs, hands,
           user, pc, cache, loc, won, consumed, horizon, deck>>

\* ----------------------------------------------------------------- helpers
Min(S) == CHOOSE x \in S : \A y \in S : x <= y
Max(S) == CHOOSE x \in S : \A y \in S : x >= y

RECURSIVE SortedSeq(_)
\* .order("joined_at", {ascending: true}): profiles joined in id order
SortedSeq(S) == IF S = {} THEN << >>
                ELSE <<Min(S)>> \o SortedSeq(S \ {Min(S)})

Roster == SortedSeq(members)

IndexOf(seq, x) == IF \E i \in DOMAIN seq : seq[i] = x
                   THEN Min({i \in DOMAIN seq : seq[i] = x}) ELSE 0

SubmittingRounds == {r \in DOMAIN rounds : rounds[r].status = "submitting"}
CompletedRounds  == {r \in DOMAIN rounds : rounds[r].status = "completed"}

HandOf(p)  == {h.card : h \in {x \in hands : x.room = RoomId /\ x.profile = p}}
HandRows(p, S) == {[room |-> RoomId, profile |-> p, card |-> k] : k \in S}

\* ------------------------------------------------- store constraints (SQL)
\* UNIQUE INDEX rounds_one_submitting_per_room ON rounds(room_id)
\*   WHERE status = 'submitting'
RoundInsertAcceptedNoIndex == TRUE
RoundInsertAccepted == SubmittingRounds = {}

\* UNIQUE (room_id, profile_id, white_card_id) on player_hands: a statement
\* that would insert an existing row is rejected as a whole
HandsInsertAccepted(rows) == rows \cap hands = {}

\* POLICY submissions_insert_own: profile_id = auth.uid(), the round is
\* submitting, and the inserting member's is_judge flag is false
SubmissionInsertAnyStatus(u, r) ==
  /\ r \in DOMAIN rounds
  /\ u \in members
  /\ isJudge[u] = FALSE
SubmissionInsertAllowed(u, r) ==
  /\ r \in DOMAIN rounds
  /\ rounds[r].status = "submitting"
  /\ u \in members
  /\ isJudge[u] = FALSE

\* a select policy that shows a member the submissions of every round
SubmissionVisibleAnyStatus(u, s) ==
  /\ s \in DOMAIN subs
  /\ u \in members
\* POLICY submissions_select_room: a member reads submissions of
\* submitting rounds only
SubmissionVisible(u, s) ==
  /\ s \in DOMAIN subs
  /\ u \in members
  /\ rounds[subs[s].round].status = "submitting"

\* ------------------------------------------------------------ client state
\* round: the roundId argument of gameUtils.selectWinner; short: whether
\* the room had fewer than MinPlayers members when startGame was called;
\* judge, from: createActiveRound's argument and caller; card, winner,
\* newScore, prev, players, i, add: locals of submitCard, selectWinner and
\* nextRound; matched: whether the handler's conditional round update
\* matched a row (the code does not read it); ret: the round id that
\* createActiveRound returns to its caller, 0 for null; del: the cards of
\* the hand rows a trimming loop still has to delete; n: cardsNeeded minus
\* the loop counter; changed: whether the handler's score update changed
\* the stored score
Blank == [judge |-> 0, from |-> "", card |-> 0, winner |-> 0, newScore |-> 0,
          prev |-> 0, players |-> << >>, i |-> 0, add |-> {},
          matched |-> TRUE, round |-> 0, short |-> FALSE, ret |-> 0,
          del |-> {}, n |-> 0, changed |-> FALSE]

\* loadGameData: what one pass reads from the store for viewer u
Snapshot(u) ==
  [status  |-> roomStatus,
   players |-> Roster,
   flag    |-> isJudge[u],
   round   |-> IF roomStatus = "playing" /\ SubmittingRounds # {}
               THEN Max(SubmittingRounds) ELSE 0,
   hand    |-> IF roomStatus = "playing" THEN HandOf(u) ELSE {}]

Goto(c, p) == pc' = [pc EXCEPT ![c] = p]
\* a handler ends (returns, or its catch block ran): locals are gone
Finish(c) == /\ pc' = [pc EXCEPT ![c] = "idle"]
             /\ loc' = [loc EXCEPT ![c] = Blank]

\* a loadGameData that also deletes the viewer's stored hand
PollDeletesHand(c) ==
  /\ pc[c] = "idle"
  /\ hands' = {h \in hands : h.profile # user[c]}
  /\ cache' = [cache EXCEPT ![c] = Snapshot(user[c])]
  /\ UNCHANGED <<roomStatus, members, score, isJudge, rounds, subs,
                 user, pc, loc, won, consumed, horizon, deck>>
\* a loadGameData that also closes the submitting rounds it reads
PollClosesRound(c) ==
  /\ pc[c] = "idle"
  /\ rounds' = [r \in DOMAIN rounds |->
                  [rounds[r] EXCEPT !.status = "completed"]]
  /\ cache' = [cache EXCEPT ![c] = Snapshot(user[c])]
  /\ UNCHANGED <<roomStatus, members, score, isJudge, subs, hands,
                 user, pc, loc, won, consumed, horizon, deck>>
\* the polling timer: loadGameData between handlers
Poll(c) ==
  /\ pc[c] = "idle"
  /\ cache' = [cache EXCEPT ![c] = Snapshot(user[c])]
  /\ UNCHANGED <<store, user, pc, loc, won, consumed, horizon, deck>>

\* the loadGameData that ends a handler
Refresh(c) ==
  /\ pc[c] = "refresh"
  /\ cache' = [cache EXCEPT ![c] = Snapshot(user[c])]
  /\ Finish(c)
  /\ UNCHANGED <<store, user, won, consumed, horizon, deck>>

\* ---------------------------------------------------- GamePage.startGame
DealsAny(ps) ==
  [DOMAIN ps -> {S \in SUBSET deck : Cardinality(S) = HandSize}]
\* the hands a shuffle deals: HandSize distinct cards per player, no card twice
Deals(ps) ==
  {d \in [DOMAIN ps -> {S \in SUBSET deck : Cardinality(S) = HandSize}] :
     \A i, j \in DOMAIN ps : i # j => d[i] \cap d[j] = {}}

\* update({ status: "playing" }): the status a start writes, whatever the
\* stored status st was
StartToggles(st) == IF st = "playing" THEN "waiting" ELSE "playing"
StartStatus(st) == "playing"

\* the Start button is rendered for the host while the cached room is waiting
StartButton(c) == user[c] = Host /\ cache[c].status = "waiting"

\* the Start button and step 1: room -> playing
StartGame(c) ==
  /\ pc[c] = "idle"
  /\ StartButton(c)
  /\ Len(cache[c].players) >= MinPlayers
  /\ roomStatus' = StartStatus(roomStatus)
  /\ loc' = [loc EXCEPT ![c].short = Cardinality(members) < MinPlayers]
  /\ Goto(c, "sg_scores")
  /\ UNCHANGED <<members, score, isJudge, rounds, subs, hands,
                 user, cache, won, consumed, horizon, deck>>

\* step 2: reset all scores
SgScores(c) ==
  /\ pc[c] = "sg_scores"
  /\ score' = [p \in Players |-> 0]
  /\ Goto(c, "sg_clear")
  /\ UNCHANGED <<roomStatus, members, isJudge, rounds, subs, hands,
                 user, cache, loc, won, consumed, horizon, deck>>

\* step 3: delete the room's hands
SgClear(c) ==
  /\ pc[c] = "sg_clear"
  /\ hands' = {h \in hands : h.room # RoomId}
  /\ consumed' = {}
  /\ Goto(c, "sg_deal")
  /\ UNCHANGED <<roomStatus, members, score, isJudge, rounds, subs,
                 user, cache, loc, won, horizon, deck>>

\* step 4: shuffle and insert all hands in one statement (its error is not
\* read); then createActiveRound(players[0])
SgDeal(c) ==
  /\ pc[c] = "sg_deal"
  /\ LET ps == cache[c].players IN
     IF Cardinality(deck) < Len(ps) * HandSize
     THEN /\ Finish(c)
          /\ UNCHANGED <<hands, won>>
     ELSE /\ \E d \in Deals(ps) :
               LET rows == UNION {HandRows(ps[i], d[i]) : i \in DOMAIN ps} IN
               hands' = IF HandsInsertAccepted(rows) THEN hands \cup rows
                        ELSE hands
          /\ pc' = [pc EXCEPT ![c] = "car_check"]
          /\ loc' = [loc EXCEPT ![c] = [Blank EXCEPT !.judge = ps[1],
                                                     !.from = "sg"]]
          /\ won' = [won EXCEPT ![c] = 0]
  /\ UNCHANGED <<roomStatus, members, score, isJudge, rounds, subs,
                 user, cache, consumed, horizon, deck>>

\* ------------------------------------------- GamePage.createActiveRound
\* guard: a submitting round exists -> loadGameData, return null
CarCheck(c) ==
  /\ pc[c] = "car_check"
  /\ IF SubmittingRounds # {} THEN Goto(c, "refresh") ELSE Goto(c, "car_clear")
  /\ loc' = [loc EXCEPT ![c].ret = 0]
  /\ UNCHANGED <<store, user, cache, won, consumed, horizon, deck>>

\* remove judge status from all players
CarClear(c) ==
  /\ pc[c] = "car_clear"
  /\ isJudge' = [p \in Players |-> FALSE]
  /\ Goto(c, "car_set")
  /\ UNCHANGED <<roomStatus, members, score, rounds, subs, hands,
                 user, cache, loc, won, consumed, horizon, deck>>

\* set the new judge's flag
CarSet(c) ==
  /\ pc[c] = "car_set"
  /\ isJudge' = IF loc[c].judge \in members
                THEN [isJudge EXCEPT ![loc[c].judge] = TRUE] ELSE isJudge
  /\ Goto(c, "car_verify")
  /\ UNCHANGED <<roomStatus, members, score, rounds, subs, hands,
                 user, cache, loc, won, consumed, horizon, deck>>

\* verify the flag; "Failed to verify judge was set" is thrown to the
\* caller, whose catch block ends the handler
CarVerify(c) ==
  /\ pc[c] = "car_verify"
  /\ IF loc[c].judge \in members /\ isJudge[loc[c].judge]
     THEN Goto(c, "car_insert") /\ UNCHANGED loc
     ELSE Finish(c)
  /\ UNCHANGED <<store, user, cache, won, consumed, horizon, deck>>

\* the row createActiveRound inserts: judge_profile_id: judgeProfileId
NewRoundFlagged(j) ==
  [judge |-> IF \E p \in Players : isJudge[p]
             THEN Min({p \in Players : isJudge[p]}) ELSE j,
   status |-> "submitting", winner |-> 0]
NewRound(j) == [judge |-> j, status |-> "submitting", winner |-> 0]

\* insert the round; a unique violation means another client created it
CarInsert(c) ==
  /\ pc[c] = "car_insert"
  /\ IF RoundInsertAccepted
     THEN /\ rounds' = Append(rounds, NewRound(loc[c].judge))
          /\ won' = [won EXCEPT ![c] = loc[c].judge]
          /\ IF loc[c].from = "nr"
             THEN \* nextRound: setCurrentRound(newRound)
                  /\ cache' = [cache EXCEPT ![c].round = Len(rounds) + 1]
                  /\ Finish(c)
             ELSE \* startGame: loadGameData
                  /\ Goto(c, "refresh")
                  /\ loc' = [loc EXCEPT ![c].ret = Len(rounds) + 1]
                  /\ UNCHANGED cache
     ELSE \* duplicate key: loadGameData, return null
          /\ Goto(c, "refresh")
          /\ loc' = [loc EXCEPT ![c].ret = 0]
          /\ UNCHANGED <<rounds, won, cache>>
  /\ UNCHANGED <<roomStatus, members, score, isJudge, subs, hands,
                 user, consumed, horizon, deck>>

\* ---------------------------------------------------- GamePage.submitCard
\* a click on card k of the cached hand (rendered only for a non-judge of the
\* cached round) and the "already submitted" check, which reads the
\* submissions the select policy shows to the caller
CardButtonAnyone(c) == TRUE
\* onClick={() => !isJudge && submitCard(card.white_card_id)}, with
\* isJudge = (currentRound?.judge_profile_id === user.id)
CardButton(c) == ~ (cache[c].round # 0 /\ rounds[cache[c].round].judge = user[c])

SubmitCard(c, k) ==
  /\ pc[c] = "idle"
  /\ CardButton(c)
  /\ k \in cache[c].hand
  /\ cache[c].round # 0
  /\ cache[c].round <= horizon
  /\ ~ \E s \in DOMAIN subs : /\ SubmissionVisible(user[c], s)
                              /\ subs[s].round = cache[c].round
                              /\ subs[s].profile = user[c]
  /\ pc' = [pc EXCEPT ![c] = "sc_insert"]
  /\ loc' = [loc EXCEPT ![c] = [Blank EXCEPT !.card = k]]
  /\ UNCHANGED <<store, user, cache, won, consumed, horizon, deck>>

\* insert the submission (subject to the insert policy)
ScInsert(c) ==
  /\ pc[c] = "sc_insert"
  /\ IF SubmissionInsertAllowed(user[c], cache[c].round)
     THEN /\ subs' = Append(subs, [round |-> cache[c].round,
                                   profile |-> user[c], card |-> loc[c].card])
          /\ Goto(c, "sc_delete")
          /\ UNCHANGED loc
     ELSE /\ Finish(c)
          /\ UNCHANGED subs
  /\ UNCHANGED <<roomStatus, members, score, isJudge, rounds, hands,
                 user, cache, won, consumed, horizon, deck>>

\* a delete filtered by the room only
DeletedRowsOfRoom(u, k) == {h \in hands : h.room = RoomId}
\* delete().eq("profile_id", user.id).eq("white_card_id", cardId)
\*   .eq("room_id", roomId): the rows it matches
DeletedRows(u, k) ==
  {h \in hands : h.room = RoomId /\ h.profile = u /\ h.card = k}

\* remove the card from the hand, then loadGameData
ScDelete(c) ==
  /\ pc[c] = "sc_delete"
  /\ LET rows == DeletedRows(user[c], loc[c].card) IN
     /\ hands' = hands \ rows
     /\ consumed' = IF rows # {} THEN consumed \cup {loc[c].card}
                    ELSE consumed
  /\ Goto(c, "refresh")
  /\ UNCHANGED <<roomStatus, members, score, isJudge, rounds, subs,
                 user, cache, loc, won, horizon, deck>>

\* -------------------------------------------------- GamePage.selectWinner
\* the judge of the cached round clicks submission s of the cached list; the
\* handler reads the submission by its id alone (subject to the select
\* policy).  loadGameData sets currentRound before it awaits the round's
\* submissions, and nextRound sets it without loading any, so the list may
\* still show rows of an earlier round than the cached one
SelectWinner(c, s) ==
  /\ pc[c] = "idle"
  /\ cache[c].round # 0
  /\ cache[c].round <= horizon
  /\ rounds[cache[c].round].judge = user[c]
  /\ s \in DOMAIN subs
  /\ subs[s].round <= cache[c].round
  /\ SubmissionVisible(user[c], s)
  /\ pc' = [pc EXCEPT ![c] = "sw_score"]
  /\ loc' = [loc EXCEPT ![c] = [Blank EXCEPT !.winner = subs[s].profile]]
  /\ UNCHANGED <<store, user, cache, won, consumed, horizon, deck>>

\* read the winner's current score
SwScore(c) ==
  /\ pc[c] = "sw_score"
  /\ IF loc[c].winner \in members
     THEN /\ loc' = [loc EXCEPT ![c].newScore = score[loc[c].winner] + 1]
          /\ Goto(c, "sw_award")
     ELSE Finish(c)
  /\ UNCHANGED <<store, user, cache, won, consumed, horizon, deck>>

\* a selectWinner that goes on to complete the round without writing the score
SwAwardSkipped(c) ==
  /\ pc[c] = "sw_award"
  /\ Goto(c, "sw_complete")
  /\ UNCHANGED <<store, user, cache, loc, won, consumed, horizon, deck>>
\* award the point: score := the score read + 1
SwAward(c) ==
  /\ pc[c] = "sw_award"
  /\ score' = [score EXCEPT ![loc[c].winner] = loc[c].newScore]
  /\ Goto(c, "sw_complete")
  /\ UNCHANGED <<roomStatus, members, isJudge, rounds, subs, hands,
                 user, cache, loc, won, consumed, horizon, deck>>

\* UPDATE rounds SET winner, status = completed WHERE id = round AND
\* status = 'submitting'; the number of rows matched is not read.  The
\* status read back is 'completed' either way; nextRound is scheduled.
SwCompleteRows(r) == IF rounds[r].status = "submitting" THEN {r} ELSE {}
SwComplete(c) ==
  /\ pc[c] = "sw_complete"
  /\ LET r == cache[c].round
         hit == SwCompleteRows(r) IN
     /\ rounds' = [x \in DOMAIN rounds |->
                     IF x \in hit
                     THEN [rounds[x] EXCEPT !.status = "completed",
                                            !.winner = loc[c].winner]
                     ELSE rounds[x]]
     /\ loc' = [loc EXCEPT ![c].matched = (hit # {})]
  /\ cache' = [cache EXCEPT ![c].round = 0]
  /\ Goto(c, "nr_check")
  /\ UNCHANGED <<roomStatus, members, score, isJudge, subs, hands,
                 user, won, consumed, horizon, deck>>

\* ----------------------------------------------------- GamePage.nextRound
\* a nextRound that goes on whatever the active-round read returns
NrCheckIgnored(c) ==
  /\ pc[c] = "nr_check"
  /\ Goto(c, "nr_last")
  /\ UNCHANGED <<store, user, cache, loc, won, consumed, horizon, deck>>
\* guard: a submitting round exists -> loadGameData, return
NrCheck(c) ==
  /\ pc[c] = "nr_check"
  /\ IF SubmittingRounds # {} THEN Goto(c, "refresh") ELSE Goto(c, "nr_last")
  /\ UNCHANGED <<store, user, cache, loc, won, consumed, horizon, deck>>

\* the judge of the most recent completed round
NrLast(c) ==
  /\ pc[c] = "nr_last"
  /\ IF CompletedRounds = {}
     THEN Finish(c)
     ELSE /\ loc' = [loc EXCEPT ![c].prev = rounds[Max(CompletedRounds)].judge]
          /\ Goto(c, "nr_players")
  /\ UNCHANGED <<store, user, cache, won, consumed, horizon, deck>>

KeepJudge(ps, prev) == prev
\* a rotation that starts from the player whose is_judge flag is set
NextJudgeByFlag(ps, prev) ==
  LET f == {i \in DOMAIN ps : isJudge[ps[i]]} IN
  IF f = {} THEN ps[1] ELSE ps[(Min(f) % Len(ps)) + 1]
\* (currentJudgeIndex + 1) % allPlayers.length over the join-ordered roster
NextJudge(ps, prev) == ps[(IndexOf(ps, prev) % Len(ps)) + 1]

\* read the roster, rotate the judge
NrPlayers(c) ==
  /\ pc[c] = "nr_players"
  /\ LET ps == Roster IN
     IF \/ Len(ps) = 0
        \/ IndexOf(ps, loc[c].prev) = 0
        \/ NextJudge(ps, loc[c].prev) = loc[c].prev
     THEN Finish(c)
     ELSE /\ loc' = [loc EXCEPT ![c].players = ps,
                                ![c].judge = NextJudge(ps, loc[c].prev),
                                ![c].from = "nr",
                                ![c].i = 1]
          /\ Goto(c, "nr_hand")
  /\ UNCHANGED <<store, user, cache, won, consumed, horizon, deck>>

\* after player i: the next player, or the judge-flag update
NrAdvance(c, l) ==
  IF l.i < Len(l.players)
  THEN /\ loc' = [loc EXCEPT ![c] = [l EXCEPT !.i = l.i + 1, !.add = {}]]
       /\ Goto(c, "nr_hand")
  ELSE /\ loc' = [loc EXCEPT ![c] = [l EXCEPT !.i = 0, !.add = {}]]
       /\ Goto(c, "nr_clear")

\* a filter that keeps the cards of the hand instead of dropping them
AvailableInHand(own) == deck \cap own
\* the cards a replenish may draw for a player whose hand read is `own`:
\* deck cards not in that hand
AvailableCards(own) == deck \ own

\* a count that asks for one card more than the target
CardsNeededOneMore(own) == HandSize + 1 - Cardinality(own)
\* const cardsNeeded = 10 - (currentCards?.length || 0)
CardsNeeded(own) == HandSize - Cardinality(own)

\* replenish player i: read the hand, draw cardsNeeded cards
NrHand(c) ==
  /\ pc[c] = "nr_hand"
  /\ LET p     == loc[c].players[loc[c].i]
         own   == HandOf(p)
         need  == CardsNeeded(own)
         avail == AvailableCards(own)
         n     == IF need <= Cardinality(avail) THEN need
                  ELSE Cardinality(avail) IN
     IF need > 0 /\ n > 0
     THEN \E S \in {T \in SUBSET avail : Cardinality(T) = n} :
            /\ loc' = [loc EXCEPT ![c].add = S]
            /\ Goto(c, "nr_insert")
     ELSE NrAdvance(c, loc[c])
  /\ UNCHANGED <<store, user, cache, won, consumed, horizon, deck>>

\* insert the drawn cards one at a time; duplicate-key errors are ignored
NrInsert(c) ==
  /\ pc[c] = "nr_insert"
  /\ \E k \in loc[c].add :
       LET p    == loc[c].players[loc[c].i]
           rows == HandRows(p, {k})
           ok   == HandsInsertAccepted(rows)
           l    == [loc[c] EXCEPT !.add = loc[c].add \ {k}] IN
       /\ hands' = IF ok THEN hands \cup rows ELSE hands
       /\ IF l.add = {}
          THEN NrAdvance(c, l)
          ELSE loc' = [loc EXCEPT ![c] = l] /\ UNCHANGED pc
  /\ UNCHANGED <<roomStatus, members, score, isJudge, rounds, subs,
                 user, cache, won, consumed, horizon, deck>>

\* FORCE UPDATE: remove all judge flags
NrClear(c) ==
  /\ pc[c] = "nr_clear"
  /\ isJudge' = [p \in Players |-> FALSE]
  /\ Goto(c, "nr_set")
  /\ UNCHANGED <<roomStatus, members, score, rounds, subs, hands,
                 user, cache, loc, won, consumed, horizon, deck>>

\* FORCE UPDATE: set only the next judge; then createActiveRound(nextJudge)
NrSet(c) ==
  /\ pc[c] = "nr_set"
  /\ isJudge' = IF loc[c].judge \in members
                THEN [isJudge EXCEPT ![loc[c].judge] = TRUE] ELSE isJudge
  /\ won' = [won EXCEPT ![c] = 0]
  /\ Goto(c, "car_check")
  /\ UNCHANGED <<roomStatus, members, score, rounds, subs, hands,
                 user, cache, loc, consumed, horizon, deck>>

\* ------------------------------------------------------------ the program
\* the handlers of GamePage.jsx, one store call per step
GameStep(c) ==
  \/ StartGame(c)
  \/ SgScores(c)
  \/ SgClear(c)
  \/ SgDeal(c)

RoundStep(c) ==
  \/ CarCheck(c)
  \/ CarClear(c)
  \/ CarSet(c)
  \/ CarVerify(c)
  \/ CarInsert(c)
  \/ Refresh(c)

PlayStep(c) ==
  \/ Poll(c)
  \/ \E k \in Cards : SubmitCard(c, k)
  \/ ScInsert(c)
  \/ ScDelete(c)
  \/ \E s \in DOMAIN subs : SelectWinner(c, s)
  \/ SwScore(c)
  \/ SwAward(c)
  \/ SwComplete(c)
  \/ NrCheck(c)
  \/ NrLast(c)
  \/ NrPlayers(c)
  \/ NrHand(c)
  \/ NrInsert(c)
  \/ NrClear(c)
  \/ NrSet(c)

\* tabs us[c] mounted on the room page, each loaded once
TabsOf(us) ==
  /\ user = us
  /\ pc = [c \in Tabs |-> "idle"]
  /\ loc = [c \in Tabs |-> Blank]
  /\ won = [c \in Tabs |-> 0]
  /\ cache = [c \in Tabs |-> Snapshot(us[c])]

\* a waiting room all players have joined
WaitingRoom ==
  /\ roomStatus = "waiting"
  /\ members = Players
  /\ score = [p \in Players |-> 0]
  /\ isJudge = [p \in Players |-> FALSE]
  /\ rounds = << >>
  /\ subs = << >>
  /\ hands = {}
  /\ consumed = {}

\* One tab per player; the host starts the game, a round is played and
\* resolved, the next round is created.
Init == WaitingRoom /\ TabsOf(<<1, 2, 3>>) /\ horizon = MaxRounds /\ deck = Cards
Next == \E c \in Tabs : GameStep(c) \/ RoundStep(c) \/ PlayStep(c)
Spec == Init /\ [][Next]_vars

\* --------------------------------------------------------------- scenarios
NextPlay == \E c \in Tabs : RoundStep(c) \/ PlayStep(c)

\* the hands of a clean deal: player p holds cards (p-1)*HandSize+1 .. p*HandSize
DealtTo(ps) == UNION {HandRows(p, ((p - 1) * HandSize + 1)..(p * HandSize)) : p \in ps}

\* the store after a startGame that ran alone: round 1 submitting, judge 1
Started ==
  /\ roomStatus = "playing"
  /\ members = Players
  /\ score = [p \in Players |-> 0]
  /\ isJudge = [p \in Players |-> p = 1]
  /\ rounds = <<NewRound(1)>>
  /\ subs = << >>
  /\ hands = DealtTo(Players)
  /\ consumed = {}

\* Two tabs of the judge (player 1) and one tab of player 2, game started.
InitTabs == Started /\ TabsOf(<<1, 1, 2>>) /\ horizon = MaxRounds /\ deck = Cards
SpecTabs == InitTabs /\ [][NextPlay]_vars

\* One tab of the judge and two tabs of player 2, game started.
InitSubmit == Started /\ TabsOf(<<1, 2, 2>>) /\ horizon = MaxRounds /\ deck = Cards
SpecSubmit == InitSubmit /\ [][NextPlay]_vars

\* Round 1 (judge 1) received player 2's card and both tabs of the judge
\* resolved it; each tab's nextRound timer is pending.  Player 2's tab is
\* idle and still shows round 1.
Resolved ==
  /\ roomStatus = "playing"
  /\ members = Players
  /\ score = [p \in Players |-> IF p = 2 THEN 1 ELSE 0]
  /\ isJudge = [p \in Players |-> p = 1]
  /\ rounds = <<[judge |-> 1, status |-> "completed", winner |-> 2]>>
  /\ subs = <<[round |-> 1, profile |-> 2, card |-> HandSize + 1]>>
  /\ hands = DealtTo(Players) \ HandRows(2, {HandSize + 1})
  /\ consumed = {HandSize + 1}

InitRotate ==
  /\ Resolved
  /\ horizon = RotateRounds /\ deck = Cards
  /\ user = <<1, 1, 2>>
  /\ pc = <<"nr_check", "nr_check", "idle">>
  /\ loc = <<[Blank EXCEPT !.winner = 2, !.newScore = 1],
             [Blank EXCEPT !.winner = 2, !.newScore = 1, !.matched = FALSE],
             Blank>>
  /\ won = <<0, 0, 0>>
  /\ cache = [c \in Tabs |->
                [status |-> "playing", players |-> Roster,
                 flag |-> (c # 3),
                 round |-> IF c = 3 THEN 1 ELSE 0,
                 hand |-> IF c = 3 THEN {} ELSE 1..HandSize]]
SpecRotate == InitRotate /\ [][NextPlay]_vars

\* Concurrent createActiveRound calls, one per tab, on a dealt room that has
\* no submitting round; each call's judge argument and caller are drawn.
InitCreate ==
  /\ roomStatus = "playing"
  /\ members = Players
  /\ score = [p \in Players |-> 0]
  /\ isJudge = [p \in Players |-> FALSE]
  /\ rounds = << >>
  /\ subs = << >>
  /\ hands = DealtTo(Players)
  /\ consumed = {}
  /\ horizon = MaxRounds /\ deck = Cards
  /\ user = <<1, 1, 2>>
  /\ pc = [c \in Tabs |-> "car_check"]
  /\ loc \in [Tabs -> {[Blank EXCEPT !.judge = j, !.from = f] :
                         j \in Players, f \in {"sg", "nr"}}]
  /\ won = [c \in Tabs |-> 0]
  /\ cache = [c \in Tabs |-> [status |-> "playing", players |-> Roster,
                              flag |-> FALSE, round |-> 0, hand |-> {}]]
NextCreate == \E c \in Tabs : RoundStep(c)
SpecCreate == InitCreate /\ [][NextCreate]_vars

\* ------------------------------------------------- gameUtils.selectWinner
\* RoomPage.handleSelectWinner(submissionId) calls
\* selectWinner(currentRound.id, submissionId, user.id).  The first await
\* reads the submission (.single()): a row hidden by the select policy
\* makes it throw before anything is written.  The buttons are rendered in
\* the judge view: the cached room is playing and the cached room_players
\* row of the user has is_judge set.
JudgeView(c) == cache[c].status = "playing" /\ cache[c].flag
UtilsSelectWinner(c, s) ==
  /\ pc[c] = "idle"
  /\ JudgeView(c)
  /\ subs[s].round <= horizon
  /\ score[subs[s].profile] < MaxScore
  /\ SubmissionVisible(user[c], s)
  /\ loc' = [loc EXCEPT ![c] = [Blank EXCEPT !.round = subs[s].round,
                                             !.winner = subs[s].profile]]
  /\ Goto(c, "uw_update")
  /\ UNCHANGED <<store, user, cache, won, consumed, horizon, deck>>

\* update rounds set winner, status = 'completed'
\*   where id = roundId and judge_profile_id = judgeId
UwUpdateRows(r, j) == {x \in DOMAIN rounds : x = r /\ rounds[x].judge = j}
UwUpdate(c) ==
  /\ pc[c] = "uw_update"
  /\ rounds' = [r \in DOMAIN rounds |->
                  IF r \in UwUpdateRows(loc[c].round, user[c])
                  THEN [rounds[r] EXCEPT !.status = "completed",
                                         !.winner = loc[c].winner]
                  ELSE rounds[r]]
  /\ Goto(c, "uw_score")
  /\ UNCHANGED <<roomStatus, members, score, isJudge, subs, hands,
                 user, cache, loc, won, consumed, horizon, deck>>

\* rpc increment_player_score(room, winner)
UwScore(c) ==
  /\ pc[c] = "uw_score"
  /\ score' = [score EXCEPT ![loc[c].winner] = @ + 1]
  /\ Goto(c, "ur_players")
  /\ UNCHANGED <<roomStatus, members, isJudge, rounds, subs, hands,
                 user, cache, loc, won, consumed, horizon, deck>>

\* replenishAllPlayerHands: the players of the room, then per player
UrPlayers(c) ==
  /\ pc[c] = "ur_players"
  /\ loc' = [loc EXCEPT ![c].players = Roster, ![c].i = 1]
  /\ Goto(c, "ur_hand")
  /\ UNCHANGED <<store, user, cache, won, consumed, horizon, deck>>

\* white_cards of the deck, limit(cardsNeeded * 3) with no order and no
\* exclusion, shuffled, the first cardsNeeded taken
UrDraws(need) == {S \in SUBSET deck : Cardinality(S) = Min({need, Cardinality(deck)})}

UrHand(c) ==
  /\ pc[c] = "ur_hand"
  /\ LET l == loc[c] IN
     IF l.i > Len(l.players)
     THEN /\ Goto(c, "uj_read")
          /\ UNCHANGED loc
     ELSE LET need == HandSize - Cardinality(HandOf(l.players[l.i])) IN
          IF need > 0
          THEN /\ \E S \in UrDraws(need) : loc' = [loc EXCEPT ![c].add = S]
               /\ Goto(c, "ur_insert")
          ELSE /\ loc' = [loc EXCEPT ![c].i = l.i + 1]
               /\ UNCHANGED pc
  /\ UNCHANGED <<store, user, cache, won, consumed, horizon, deck>>

\* one insert statement for the player's new rows; an error is thrown
UrInsert(c) ==
  /\ pc[c] = "ur_insert"
  /\ LET l    == loc[c]
         rows == HandRows(l.players[l.i], l.add) IN
     IF HandsInsertAccepted(rows)
     THEN /\ hands' = hands \cup rows
          /\ loc' = [loc EXCEPT ![c] = [l EXCEPT !.i = l.i + 1, !.add = {}]]
          /\ Goto(c, "ur_hand")
     ELSE /\ Finish(c)
          /\ UNCHANGED hands
  /\ UNCHANGED <<roomStatus, members, score, isJudge, rounds, subs,
                 user, cache, won, consumed, horizon, deck>>

\* rotateJudge: players.findIndex(p => p.is_judge) is -1 when no flag is set
FlaggedIndex(ps) == IF \E i \in DOMAIN ps : isJudge[ps[i]]
                    THEN Min({i \in DOMAIN ps : isJudge[ps[i]]}) ELSE 0
UjRead(c) ==
  /\ pc[c] = "uj_read"
  /\ loc' = [loc EXCEPT ![c].judge = Roster[(FlaggedIndex(Roster) % Len(Roster)) + 1]]
  /\ Goto(c, "uj_clear")
  /\ UNCHANGED <<store, user, cache, won, consumed, horizon, deck>>

UjClear(c) ==
  /\ pc[c] = "uj_clear"
  /\ isJudge' = [p \in Players |-> FALSE]
  /\ Goto(c, "uj_set")
  /\ UNCHANGED <<roomStatus, members, score, rounds, subs, hands,
                 user, cache, loc, won, consumed, horizon, deck>>

UjSet(c) ==
  /\ pc[c] = "uj_set"
  /\ isJudge' = [isJudge EXCEPT ![loc[c].judge] = TRUE]
  /\ Goto(c, "un_judge")
  /\ UNCHANGED <<roomStatus, members, score, rounds, subs, hands,
                 user, cache, loc, won, consumed, horizon, deck>>

\* the flagged player, .single(): null unless exactly one row
UnJudge(c) ==
  /\ pc[c] = "un_judge"
  /\ LET flagged == {p \in members : isJudge[p]} IN
     IF Cardinality(flagged) = 1
     THEN /\ loc' = [loc EXCEPT ![c].judge = Min(flagged)]
          /\ Goto(c, "un_insert")
     ELSE Finish(c)
  /\ UNCHANGED <<store, user, cache, won, consumed, horizon, deck>>

\* createNewRound: the insert; a unique violation is thrown
UnInsert(c) ==
  /\ pc[c] = "un_insert"
  /\ IF RoundInsertAccepted
     THEN rounds' = Append(rounds, NewRound(loc[c].judge))
     ELSE UNCHANGED rounds
  /\ Finish(c)
  /\ UNCHANGED <<roomStatus, members, score, isJudge, subs, hands,
                 user, cache, won, consumed, horizon, deck>>

UtilsStep(c) ==
  \/ \E s \in DOMAIN subs : UtilsSelectWinner(c, s)
  \/ UwUpdate(c)
  \/ UwScore(c)
  \/ UrPlayers(c)
  \/ UrHand(c)
  \/ UrInsert(c)
  \/ UjRead(c)
  \/ UjClear(c)
  \/ UjSet(c)
  \/ UnJudge(c)
  \/ UnInsert(c)

\* round 1 is open and every player but the judge has submitted the card
\* dealt to them; the judge has the room open in two tabs
Submitted ==
  /\ roomStatus = "playing"
  /\ members = Players
  /\ score = [p \in Players |-> 0]
  /\ isJudge = [p \in Players |-> p = 1]
  /\ rounds = <<NewRound(1)>>
  /\ subs = [i \in 1..(NumPlayers - 1) |->
               [round |-> 1, profile |-> i + 1, card |-> i * HandSize + 1]]
  /\ hands = {h \in DealtTo(Players) :
                \A i \in 1..(NumPlayers - 1) :
                  ~ (h.profile = i + 1 /\ h.card = i * HandSize + 1)}
  /\ consumed = {i * HandSize + 1 : i \in 1..(NumPlayers - 1)}

InitUtils == Submitted /\ TabsOf(<<1, 1, 2>>) /\ horizon = MaxRounds /\ deck = Cards
NextUtils == \E c \in Tabs : UtilsStep(c)
SpecUtils == InitUtils /\ [][NextUtils]_vars

\* ---------------------------------------------------- RoomPage.leaveRoom
\* delete the user's room_players row, navigate("/")
LeaveRoom(c) ==
  /\ pc[c] = "idle"
  /\ user[c] \in members
  /\ members' = members \ {user[c]}
  /\ Goto(c, "left")
  /\ UNCHANGED <<roomStatus, score, isJudge, rounds, subs, hands,
                 user, cache, loc, won, consumed, horizon, deck>>

\* --------------------------------------------------- gameUtils.startGame
\* RoomPage renders Start Game for the host while the cached room is waiting
\* and the cached roster has at least 3 players
StartView(c) ==
  /\ user[c] = Host
  /\ cache[c].status = "waiting"
  /\ Len(cache[c].players) >= MinPlayers

\* handleStartGame -> startGame(roomId, deckId), step 1: room -> playing
UtilsStartGame(c) ==
  /\ pc[c] = "idle"
  /\ StartView(c)
  /\ roomStatus' = StartStatus(roomStatus)
  /\ loc' = [loc EXCEPT ![c] = [Blank EXCEPT
                                  !.short = Cardinality(members) < MinPlayers]]
  /\ Goto(c, "ug_players")
  /\ UNCHANGED <<members, score, isJudge, rounds, subs, hands,
                 user, cache, won, consumed, horizon, deck>>

\* step 2: the players by joined_at; "No players found in room" when empty
UgPlayers(c) ==
  /\ pc[c] = "ug_players"
  /\ IF Roster = << >>
     THEN Finish(c)
     ELSE /\ loc' = [loc EXCEPT ![c].players = Roster]
          /\ Goto(c, "ug_judge")
  /\ UNCHANGED <<store, user, cache, won, consumed, horizon, deck>>

\* step 3: set is_judge of the first player (other flags are left alone)
UgJudge(c) ==
  /\ pc[c] = "ug_judge"
  /\ isJudge' = IF loc[c].players[1] \in members
                THEN [isJudge EXCEPT ![loc[c].players[1]] = TRUE] ELSE isJudge
  /\ Goto(c, "ug_deal")
  /\ UNCHANGED <<roomStatus, members, score, rounds, subs, hands,
                 user, cache, loc, won, consumed, horizon, deck>>

\* dealCardsToPlayers: player i gets slice(i * 10, (i + 1) * 10) of the
\* shuffled deck, which is short or empty once the deck runs out
SliceSize(i) == Max({0, Min({HandSize, Cardinality(deck) - (i - 1) * HandSize})})
UgDeals(ps) ==
  {d \in [DOMAIN ps -> SUBSET deck] :
     /\ \A i \in DOMAIN ps : Cardinality(d[i]) = SliceSize(i)
     /\ \A i, j \in DOMAIN ps : i # j => d[i] \cap d[j] = {}}

\* step 4: one insert of all hands; its error is thrown
UgDeal(c) ==
  /\ pc[c] = "ug_deal"
  /\ \E d \in UgDeals(loc[c].players) :
       LET rows == UNION {HandRows(loc[c].players[i], d[i]) :
                            i \in DOMAIN loc[c].players} IN
       IF HandsInsertAccepted(rows)
       THEN /\ hands' = hands \cup rows
            /\ Goto(c, "ug_round")
            /\ UNCHANGED loc
       ELSE /\ Finish(c)
            /\ UNCHANGED hands
  /\ UNCHANGED <<roomStatus, members, score, isJudge, rounds, subs,
                 user, cache, won, consumed, horizon, deck>>

\* step 5: startNewRound(roomId, deckId, players[0]); its error is thrown
\* to handleStartGame's catch block, success makes the page reload its data
UgRound(c) ==
  /\ pc[c] = "ug_round"
  /\ IF RoundInsertAccepted
     THEN /\ rounds' = Append(rounds, NewRound(loc[c].players[1]))
          /\ Goto(c, "refresh")
          /\ UNCHANGED loc
     ELSE /\ Finish(c)
          /\ UNCHANGED rounds
  /\ UNCHANGED <<roomStatus, members, score, isJudge, subs, hands,
                 user, cache, won, consumed, horizon, deck>>

StartStep(c) ==
  \/ UtilsStartGame(c)
  \/ UgPlayers(c)
  \/ UgJudge(c)
  \/ UgDeal(c)
  \/ UgRound(c)

\* A waiting room of three; players may leave, the host may start the game
\* from either page.
InitLobby == WaitingRoom /\ TabsOf(<<1, 2, 3>>) /\ horizon = MaxRounds /\ deck = Cards
NextLobby ==
  \E c \in Tabs :
    \/ LeaveRoom(c)
    \/ Poll(c)
    \/ GameStep(c)
    \/ RoundStep(c)
    \/ StartStep(c)
SpecLobby == InitLobby /\ [][NextLobby]_vars

\* The host starts the game from GamePage while the other tabs poll.
InitStart == WaitingRoom /\ TabsOf(<<1, 2, 3>>) /\ horizon = MaxRounds /\ deck = Cards
NextStart == \E c \in Tabs : GameStep(c) \/ RoundStep(c) \/ Poll(c)
SpecStart == InitStart /\ [][NextStart]_vars

\* Round 1 (judge 1) is open with the other players' submissions in, while
\* the is_judge flag stands on player 2, whose page therefore shows the
\* judge view.
InitWrongJudge ==
  /\ roomStatus = "playing"
  /\ members = Players
  /\ score = [p \in Players |-> 0]
  /\ isJudge = [p \in Players |-> p = 2]
  /\ rounds = <<NewRound(1)>>
  /\ subs = [i \in 1..(NumPlayers - 1) |->
               [round |-> 1, profile |-> i + 1, card |-> i * HandSize + 1]]
  /\ hands = {h \in DealtTo(Players) :
                \A i \in 1..(NumPlayers - 1) :
                  ~ (h.profile = i + 1 /\ h.card = i * HandSize + 1)}
  /\ consumed = {i * HandSize + 1 : i \in 1..(NumPlayers - 1)}
  /\ TabsOf(<<1, 1, 2>>)
  /\ horizon = MaxRounds /\ deck = Cards
SpecWrongJudge == InitWrongJudge /\ [][NextUtils]_vars

\* ------------------------------------------------------ fair scheduling
\* a tab that stays open keeps running: its timers fire and its awaits
\* resume (the 2 s polling interval, setTimeout(nextRound), each store call)
TabRuns(c) == WF_vars(RoundStep(c) \/ PlayStep(c))

\* One tab per player from a started game; every tab stays open.
InitFair == Started /\ TabsOf(<<1, 2, 3>>) /\ horizon = MaxRounds /\ deck = Cards
SpecFair == InitFair /\ [][NextPlay]_vars /\ \A c \in Tabs : TabRuns(c)

\* the page is closed while the nextRound timer of selectWinner is pending:
\* the timer dies with the page
CloseTab(c) ==
  /\ pc[c] = "nr_check"
  /\ Goto(c, "closed")
  /\ UNCHANGED <<store, user, cache, loc, won, consumed, horizon, deck>>

\* As SpecFair, but the resolver's tab may be closed before its nextRound runs.
NextStall == \E c \in Tabs : RoundStep(c) \/ PlayStep(c) \/ CloseTab(c)
SpecStall == InitFair /\ [][NextStall]_vars /\ \A c \in Tabs : TabRuns(c)

\* Round 1 (judge 1, winner 2) was resolved by both tabs of the judge, whose
\* nextRound timers are pending; any idle tab may leave the room meanwhile.
InitLeave ==
  /\ Resolved
  /\ horizon = MaxRounds /\ deck = Cards
  /\ user = <<1, 1, 2>>
  /\ pc = <<"nr_check", "nr_check", "idle">>
  /\ loc = <<[Blank EXCEPT !.winner = 2, !.newScore = 1],
             [Blank EXCEPT !.winner = 2, !.newScore = 1, !.matched = FALSE],
             Blank>>
  /\ won = <<0, 0, 0>>
  /\ cache = [c \in Tabs |-> Snapshot(user[c])]
NextRoundStep(c) ==
  \/ NrCheck(c)
  \/ NrLast(c)
  \/ NrPlayers(c)
  \/ NrHand(c)
  \/ NrInsert(c)
  \/ NrClear(c)
  \/ NrSet(c)
NextLeave ==
  \E c \in Tabs : LeaveRoom(c) \/ Poll(c) \/ NextRoundStep(c) \/ RoundStep(c)
SpecLeave == InitLeave /\ [][NextLeave]_vars

\* The room's deck holds fewer white cards than the players need; the host
\* has the page open in two tabs.
InitShortDeck ==
  /\ WaitingRoom
  /\ TabsOf(<<1, 1, 2>>)
  /\ horizon = MaxRounds
  /\ deck \in {1..n : n \in 0..(NumPlayers * HandSize - 1)}
NextShortDeck == \E c \in Tabs : GameStep(c) \/ Poll(c)
SpecShortDeck == InitShortDeck /\ [][NextShortDeck]_vars

\* The game was started from the host's first tab; the host's second tab
\* has not polled since and still shows the waiting room with its Start
\* button, on either page.
InitRestart ==
  /\ Started
  /\ horizon = MaxRounds /\ deck = Cards
  /\ user = <<1, 1, 2>>
  /\ pc = [c \in Tabs |-> "idle"]
  /\ loc = [c \in Tabs |-> Blank]
  /\ won = <<1, 0, 0>>
  /\ cache = [c \in Tabs |->
                IF c = 2
                THEN [status |-> "waiting", players |-> Roster, flag |-> FALSE,
                      round |-> 0, hand |-> {}]
                ELSE Snapshot(user[c])]
NextRestart ==
  \E c \in Tabs :
    GameStep(c) \/ StartStep(c) \/ CarCheck(c) \/ Refresh(c) \/ Poll(c)
SpecRestart == InitRestart /\ [][NextRestart]_vars

\* Round 1 (judge 1) is open with the other players' submissions in; the
\* judge has the room open in two tabs, and player 2's tab has been closed.
InitJudge ==
  /\ Submitted
  /\ horizon = MaxRounds /\ deck = Cards
  /\ user = <<1, 1, 2>>
  /\ pc = <<"idle", "idle", "closed">>
  /\ loc = [c \in Tabs |-> Blank]
  /\ won = [c \in Tabs |-> 0]
  /\ cache = [c \in Tabs |-> Snapshot(user[c])]
JudgeStep(c) ==
  \/ Poll(c)
  \/ \E s \in DOMAIN subs : SelectWinner(c, s)
  \/ SwScore(c)
  \/ SwAward(c)
  \/ SwComplete(c)
  \/ NextRoundStep(c)
  \/ RoundStep(c)
NextJudgeTabs == \E c \in Tabs : JudgeStep(c)
SpecJudge == InitJudge /\ [][NextJudgeTabs]_vars

\* ------------------------------------- src/unnamed/part_003 (GamePage)
\* The revision of GamePage.jsx whose loadGameData trims the viewer's hand
\* and whose selectWinner reads the rows its conditional update returned and
\* replenishes the hands itself.  Row ids of player_hands are not part of
\* the store model: the rows of a hand are numbered in card order.
RECURSIVE FirstOf(_, _)
\* the other end of the ordered rows
LastOf(S, n) == {k \in S : Cardinality({j \in S : j > k}) < n}
\* handData.slice(0, 10) of the rows ordered by id
FirstOf(S, n) == IF n = 0 \/ S = {} THEN {}
                 ELSE {Min(S)} \cup FirstOf(S \ {Min(S)}, n - 1)
\* a trim that deletes from the wrong end: slice(0, length - 10)
ExcessFromFront(S) == S \ LastOf(S, HandSize)
\* handData.slice(10)
ExcessOf(S) == S \ FirstOf(S, HandSize)

\* loadGameData: one pass; a hand of more than 10 rows is shown cut to its
\* first 10 and the rows beyond them are deleted one by one
LoadTrim(c) ==
  /\ pc[c] \in {"idle", "pl_load"}
  /\ LET snap == Snapshot(user[c]) IN
     /\ cache' = [cache EXCEPT ![c] =
                    [snap EXCEPT !.hand = FirstOf(snap.hand, HandSize)]]
     /\ IF ExcessOf(snap.hand) # {}
        THEN /\ pc' = [pc EXCEPT ![c] = "pl_trim"]
             /\ loc' = [loc EXCEPT ![c] = [Blank EXCEPT !.del = ExcessOf(snap.hand)]]
        ELSE Finish(c)
  /\ UNCHANGED <<store, user, won, consumed, horizon, deck>>

\* delete().eq("id", card.id) for the next excess row
PlTrim(c) ==
  /\ pc[c] = "pl_trim"
  /\ LET k == Min(loc[c].del) IN
     /\ hands' = hands \ HandRows(user[c], {k})
     /\ IF loc[c].del = {k}
        THEN Finish(c)
        ELSE /\ loc' = [loc EXCEPT ![c].del = loc[c].del \ {k}]
             /\ UNCHANGED pc
  /\ UNCHANGED <<roomStatus, members, score, isJudge, rounds, subs,
                 user, cache, won, consumed, horizon, deck>>

\* selectWinner: the judge of the cached round clicks submission s while no
\* earlier click is being processed; the handler reads the submission
PwSelectWinner(c, s) ==
  /\ pc[c] = "idle"
  /\ cache[c].round # 0
  /\ cache[c].round <= horizon
  /\ rounds[cache[c].round].judge = user[c]
  /\ s \in DOMAIN subs
  /\ subs[s].round = cache[c].round
  /\ SubmissionVisible(user[c], s)
  /\ pc' = [pc EXCEPT ![c] = "pw_score"]
  /\ loc' = [loc EXCEPT ![c] = [Blank EXCEPT !.winner = subs[s].profile]]
  /\ UNCHANGED <<store, user, cache, won, consumed, horizon, deck>>

\* read the winner's current score (.single())
PwScore(c) ==
  /\ pc[c] = "pw_score"
  /\ IF loc[c].winner \in members
     THEN /\ loc' = [loc EXCEPT ![c].newScore = score[loc[c].winner] + 1]
          /\ Goto(c, "pw_award")
     ELSE Finish(c)
  /\ UNCHANGED <<store, user, cache, won, consumed, horizon, deck>>

\* award the point: score := the score read + 1 (the read-back that follows
\* only logs a mismatch)
PwAward(c) ==
  /\ pc[c] = "pw_award"
  /\ score' = [score EXCEPT ![loc[c].winner] = loc[c].newScore]
  /\ loc' = [loc EXCEPT ![c].changed = (score[loc[c].winner] # loc[c].newScore)]
  /\ Goto(c, "pw_complete")
  /\ UNCHANGED <<roomStatus, members, isJudge, rounds, subs, hands,
                 user, cache, won, consumed, horizon, deck>>

\* UPDATE rounds SET winner, status = completed WHERE id = round AND
\* status = 'submitting' ... .select(): with no row returned the handler
\* clears the round, reloads and returns; otherwise it goes on to replenish
PwComplete(c) ==
  /\ pc[c] = "pw_complete"
  /\ LET r == cache[c].round
         hit == SwCompleteRows(r) IN
     /\ rounds' = [x \in DOMAIN rounds |->
                     IF x \in hit
                     THEN [rounds[x] EXCEPT !.status = "completed",
                                            !.winner = loc[c].winner]
                     ELSE rounds[x]]
     /\ loc' = [loc EXCEPT ![c].matched = (hit # {})]
     /\ IF hit = {} THEN Goto(c, "pl_load") ELSE Goto(c, "pw_players")
  /\ cache' = [cache EXCEPT ![c].round = 0]
  /\ UNCHANGED <<roomStatus, members, score, isJudge, subs, hands,
                 user, won, consumed, horizon, deck>>

\* refreshedPlayers, then the cards of the deck that are in no hand of the
\* room, shuffled once
PwPlayers(c) ==
  /\ pc[c] = "pw_players"
  /\ loc' = [loc EXCEPT ![c].players = Roster,
                        ![c].add = deck \ {h.card : h \in hands},
                        ![c].i = 1]
  /\ IF Roster = << >> THEN Goto(c, "pw_timer") ELSE Goto(c, "pw_hand")
  /\ UNCHANGED <<store, user, cache, won, consumed, horizon, deck>>

\* after player i of the replenish loop: the next player, or the final
\* verification loop from the first player
PwAdvance(c, l) ==
  IF l.i < Len(l.players)
  THEN /\ loc' = [loc EXCEPT ![c] = [l EXCEPT !.i = l.i + 1, !.n = 0]]
       /\ Goto(c, "pw_hand")
  ELSE /\ loc' = [loc EXCEPT ![c] = [l EXCEPT !.i = 1, !.n = 0]]
       /\ Goto(c, "pw_final")

\* after player i of the final loop: the next player, or the end of the
\* handler with the nextRound timer set
PwFinalAdvance(c, l) ==
  IF l.i < Len(l.players)
  THEN /\ loc' = [loc EXCEPT ![c] = [l EXCEPT !.i = l.i + 1]]
       /\ Goto(c, "pw_final")
  ELSE /\ loc' = [loc EXCEPT ![c] = [l EXCEPT !.i = 0]]
       /\ Goto(c, "pw_timer")

\* currentCards.slice(10) of a select without an order: any rows beyond 10
ExcessChoices(own) == {own \ K : K \in {T \in SUBSET own : Cardinality(T) = HandSize}}

\* replenish player i: count the hand; more than 10 -> delete the excess,
\* exactly 10 -> skip, fewer -> add cards while the shuffled pool lasts
PwHand(c) ==
  /\ pc[c] = "pw_hand"
  /\ LET own == HandOf(loc[c].players[loc[c].i]) IN
     IF Cardinality(own) > HandSize
     THEN \E D \in ExcessChoices(own) :
            /\ loc' = [loc EXCEPT ![c].del = D, ![c].from = "hand"]
            /\ Goto(c, "pw_trim")
     ELSE IF Cardinality(own) < HandSize /\ loc[c].add # {}
     THEN /\ loc' = [loc EXCEPT ![c].n = HandSize - Cardinality(own)]
          /\ Goto(c, "pw_check")
     ELSE PwAdvance(c, loc[c])
  /\ UNCHANGED <<store, user, cache, won, consumed, horizon, deck>>

\* delete one excess row of player i; after the last one the loop goes on
PwTrim(c) ==
  /\ pc[c] = "pw_trim"
  /\ \E k \in loc[c].del :
       LET l == [loc[c] EXCEPT !.del = loc[c].del \ {k}] IN
       /\ hands' = hands \ HandRows(loc[c].players[loc[c].i], {k})
       /\ IF l.del # {}
          THEN loc' = [loc EXCEPT ![c] = l] /\ UNCHANGED pc
          ELSE IF l.from = "hand" THEN PwAdvance(c, l)
          ELSE PwFinalAdvance(c, l)
  /\ UNCHANGED <<roomStatus, members, score, isJudge, rounds, subs,
                 user, cache, won, consumed, horizon, deck>>

\* the loop condition and the re-check of the count before each card
PwCheck(c) ==
  /\ pc[c] = "pw_check"
  /\ IF \/ loc[c].n = 0
        \/ loc[c].add = {}
        \/ Cardinality(HandOf(loc[c].players[loc[c].i])) >= HandSize
     THEN PwAdvance(c, loc[c])
     ELSE Goto(c, "pw_insert") /\ UNCHANGED loc
  /\ UNCHANGED <<store, user, cache, won, consumed, horizon, deck>>

\* insert shuffledAvailable[cardIndex++] for player i; an insert error is
\* only logged
PwInsert(c) ==
  /\ pc[c] = "pw_insert"
  /\ \E k \in loc[c].add :
       LET rows == HandRows(loc[c].players[loc[c].i], {k}) IN
       /\ hands' = IF HandsInsertAccepted(rows) THEN hands \cup rows ELSE hands
       /\ loc' = [loc EXCEPT ![c].add = loc[c].add \ {k},
                             ![c].n = loc[c].n - 1]
  /\ Goto(c, "pw_check")
  /\ UNCHANGED <<roomStatus, members, score, isJudge, rounds, subs,
                 user, cache, won, consumed, horizon, deck>>

\* final verification of player i: more than 10 -> delete the excess
PwFinal(c) ==
  /\ pc[c] = "pw_final"
  /\ LET own == HandOf(loc[c].players[loc[c].i]) IN
     IF Cardinality(own) > HandSize
     THEN \E D \in ExcessChoices(own) :
            /\ loc' = [loc EXCEPT ![c].del = D, ![c].from = "final"]
            /\ Goto(c, "pw_trim")
     ELSE PwFinalAdvance(c, loc[c])
  /\ UNCHANGED <<store, user, cache, won, consumed, horizon, deck>>

Part3Step(c) ==
  \/ LoadTrim(c)
  \/ PlTrim(c)
  \/ \E s \in DOMAIN subs : PwSelectWinner(c, s)
  \/ PwScore(c)
  \/ PwAward(c)
  \/ PwComplete(c)
  \/ PwPlayers(c)
  \/ PwHand(c)
  \/ PwTrim(c)
  \/ PwCheck(c)
  \/ PwInsert(c)
  \/ PwFinal(c)

\* Round 1 (judge 1) is open with the other players' submissions in; the
\* judge has the room open in two tabs.  A hand may hold one row too many,
\* left by replenishments that raced in an earlier round.
InitPart3 ==
  /\ roomStatus = "playing"
  /\ members = Players
  /\ score = [p \in Players |-> 0]
  /\ isJudge = [p \in Players |-> p = 1]
  /\ rounds = <<NewRound(1)>>
  /\ subs = [i \in 1..(NumPlayers - 1) |->
               [round |-> 1, profile |-> i + 1, card |-> i * HandSize + 1]]
  /\ \E extra \in {{}} \cup {HandRows(p, {NumPlayers * HandSize + 1}) : p \in Players} :
       hands = {h \in DealtTo(Players) :
                  \A i \in 1..(NumPlayers - 1) :
                    ~ (h.profile = i + 1 /\ h.card = i * HandSize + 1)}
               \cup extra
  /\ consumed = {i * HandSize + 1 : i \in 1..(NumPlayers - 1)}
  /\ TabsOf(<<1, 1, 2>>)
  /\ horizon = MaxRounds /\ deck = Cards
NextPart3 == \E c \in Tabs : Part3Step(c)
SpecPart3 == InitPart3 /\ [][NextPart3]_vars

\* The stored hands hold up to MaxExcess rows too many (left by racing
\* replenishments); each player has the part_003 page open in one tab, which
\* polls.  Player p's rows are the cards from (p-1)*HandSize+1 on, wrapping
\* round the deck.
ExcessHand(p, e) ==
  {(((p - 1) * HandSize + j - 1) % Cardinality(Cards)) + 1 : j \in 1..(HandSize + e)}
InitTrim ==
  /\ roomStatus = "playing"
  /\ members = Players
  /\ score = [p \in Players |-> 0]
  /\ isJudge = [p \in Players |-> p = 1]
  /\ rounds = <<NewRound(1)>>
  /\ subs = << >>
  /\ \E e \in [Players -> 0..MaxExcess] :
       hands = UNION {HandRows(p, ExcessHand(p, e[p])) : p \in Players}
  /\ consumed = {}
  /\ TabsOf(<<1, 2, 3>>)
  /\ horizon = MaxRounds /\ deck = Cards
NextTrim == \E c \in Tabs : LoadTrim(c) \/ PlTrim(c)
SpecTrim == InitTrim /\ [][NextTrim]_vars

\* Round 1 (judge 1, winner 2) has been resolved by the judge's only tab,
\* whose nextRound timer is pending; player 3 had submitted too, or had not.
\* No other client is running.
InitAlone ==
  /\ roomStatus = "playing"
  /\ members = Players
  /\ score = [p \in Players |-> IF p = 2 THEN 1 ELSE 0]
  /\ isJudge = [p \in Players |-> p = 1]
  /\ rounds = <<[judge |-> 1, status |-> "completed", winner |-> 2]>>
  /\ \E late \in SUBSET {3} :
       /\ subs = [i \in 1..(1 + Cardinality(late)) |->
                    [round |-> 1, profile |-> i + 1, card |-> i * HandSize + 1]]
       /\ consumed = {i * HandSize + 1 : i \in 1..(1 + Cardinality(late))}
       /\ hands = DealtTo(Players) \
                    UNION {HandRows(p, {(p - 1) * HandSize + 1}) : p \in {2} \cup late}
  /\ horizon = MaxRounds /\ deck = Cards
  /\ user = <<1, 2, 3>>
  /\ pc = <<"nr_check", "closed", "closed">>
  /\ loc = <<[Blank EXCEPT !.winner = 2, !.newScore = 1], Blank, Blank>>
  /\ won = <<0, 0, 0>>
  /\ cache = [c \in Tabs |-> [Snapshot(user[c]) EXCEPT !.round = 0]]
NextAlone ==
  \E c \in Tabs :
    \/ NextRoundStep(c)
    \/ CarCheck(c)
    \/ CarClear(c)
    \/ CarSet(c)
    \/ CarVerify(c)
    \/ CarInsert(c)
SpecAlone == InitAlone /\ [][NextAlone]_vars

\* ------------------------------------------- store calls that fail
\* a store call that fails (the request does not reach the store, or the
\* store rejects it) returns { error } and writes nothing.  submitCard
\* throws on the insert's error: the catch block ends the call
ScInsertFails(c) ==
  /\ pc[c] = "sc_insert"
  /\ Finish(c)
  /\ UNCHANGED <<store, user, cache, won, consumed, horizon, deck>>

\* submitCard awaits the delete and does not read its result: after a
\* failed delete the call goes on to loadGameData and "Card submitted!"
ScDeleteFails(c) ==
  /\ pc[c] = "sc_delete"
  /\ Goto(c, "refresh")
  /\ UNCHANGED <<store, user, cache, loc, won, consumed, horizon, deck>>

NextFail ==
  \/ NextPlay
  \/ \E c \in Tabs : ScInsertFails(c)
  \/ \E c \in Tabs : ScDeleteFails(c)
\* one tab per player, game started
SpecFail == InitFair /\ [][NextFail]_vars

\* Round 1 (judge j, winner w) has been resolved by the judge's tab, whose
\* nextRound timer is pending; no other client is running.  The is_judge
\* flags of room_players are arbitrary.
InitFlags ==
  /\ roomStatus = "playing"
  /\ members = Players
  /\ isJudge \in [Players -> BOOLEAN]
  /\ \E j \in Players : \E w \in Players \ {j} :
       /\ score = [p \in Players |-> IF p = w THEN 1 ELSE 0]
       /\ rounds = <<[judge |-> j, status |-> "completed", winner |-> w]>>
       /\ subs = <<[round |-> 1, profile |-> w, card |-> (w - 1) * HandSize + 1]>>
       /\ consumed = {(w - 1) * HandSize + 1}
       /\ hands = DealtTo(Players) \ HandRows(w, {(w - 1) * HandSize + 1})
       /\ pc = [c \in Tabs |-> IF c = j THEN "nr_check" ELSE "closed"]
       /\ loc = [c \in Tabs |-> IF c = j
                                THEN [Blank EXCEPT !.winner = w, !.newScore = 1]
                                ELSE Blank]
  /\ horizon = MaxRounds /\ deck = Cards
  /\ user = <<1, 2, 3>>
  /\ won = <<0, 0, 0>>
  /\ cache = [c \in Tabs |-> [Snapshot(user[c]) EXCEPT !.round = 0]]
SpecFlags == InitFlags /\ [][NextAlone]_vars

\* The host has the waiting room open in two tabs and presses Start in
\* both; player 2's tab is closed.
InitTwoStarts ==
  /\ WaitingRoom
  /\ horizon = MaxRounds /\ deck = Cards
  /\ user = <<1, 1, 2>>
  /\ pc = <<"idle", "idle", "closed">>
  /\ loc = [c \in Tabs |-> Blank]
  /\ won = [c \in Tabs |-> 0]
  /\ cache = [c \in Tabs |-> Snapshot(user[c])]
NextTwoStarts == \E c \in Tabs : GameStep(c) \/ RoundStep(c)
SpecTwoStarts == InitTwoStarts /\ [][NextTwoStarts]_vars

\* --------------------------------------------------- gameUtils.submitCard
\* RoomPage.handleSubmitCard(whiteCardId) calls
\* submitCard(currentRound.id, user.id, whiteCardId) from a card of the
\* cached hand, shown outside the judge view.  The "already submitted" read
\* uses .single(): it returns a row only when exactly one row is visible
UtilsSubmitCard(c, k) ==
  /\ pc[c] = "idle"
  /\ cache[c].status = "playing"
  /\ ~ JudgeView(c)
  /\ k \in cache[c].hand
  /\ cache[c].round # 0
  /\ cache[c].round <= horizon
  /\ Cardinality({s \in DOMAIN subs : /\ SubmissionVisible(user[c], s)
                                      /\ subs[s].round = cache[c].round
                                      /\ subs[s].profile = user[c]}) # 1
  /\ pc' = [pc EXCEPT ![c] = "us_insert"]
  /\ loc' = [loc EXCEPT ![c] = [Blank EXCEPT !.card = k]]
  /\ UNCHANGED <<store, user, cache, won, consumed, horizon, deck>>

\* insert the submission; its error is thrown
UsInsert(c) ==
  /\ pc[c] = "us_insert"
  /\ IF SubmissionInsertAllowed(user[c], cache[c].round)
     THEN /\ subs' = Append(subs, [round |-> cache[c].round,
                                   profile |-> user[c], card |-> loc[c].card])
          /\ Goto(c, "us_delete")
          /\ UNCHANGED loc
     ELSE /\ Finish(c)
          /\ UNCHANGED subs
  /\ UNCHANGED <<roomStatus, members, score, isJudge, rounds, hands,
                 user, cache, won, consumed, horizon, deck>>

\* delete().eq("profile_id", profileId).eq("white_card_id", whiteCardId):
\* the rows it matches
UsDeletedRows(u, k) == {h \in hands : h.profile = u /\ h.card = k}

\* remove the card from the hand; the page then reloads hand and submissions
UsDelete(c) ==
  /\ pc[c] = "us_delete"
  /\ LET rows == UsDeletedRows(user[c], loc[c].card) IN
     /\ hands' = hands \ rows
     /\ consumed' = IF \E h \in rows : h.room = RoomId
                    THEN consumed \cup {loc[c].card} ELSE consumed
  /\ Goto(c, "refresh")
  /\ UNCHANGED <<roomStatus, members, score, isJudge, rounds, subs,
                 user, cache, loc, won, horizon, deck>>

\* Game started in the room, one tab per player; players 2 and 3 are also
\* in another room that uses the same deck, where each holds one card.
\* Players submit from either page.
InitRooms ==
  /\ roomStatus = "playing"
  /\ members = Players
  /\ score = [p \in Players |-> 0]
  /\ isJudge = [p \in Players |-> p = 1]
  /\ rounds = <<NewRound(1)>>
  /\ subs = << >>
  /\ \E k2, k3 \in Cards :
       hands = DealtTo(Players) \cup
                 {[room |-> RoomId + 1, profile |-> 2, card |-> k2],
                  [room |-> RoomId + 1, profile |-> 3, card |-> k3]}
  /\ consumed = {}
  /\ TabsOf(<<1, 2, 3>>)
  /\ horizon = MaxRounds /\ deck = Cards
NextRooms ==
  \E c \in Tabs :
    \/ Poll(c)
    \/ \E k \in Cards : SubmitCard(c, k)
    \/ ScInsert(c)
    \/ ScDelete(c)
    \/ \E k \in Cards : UtilsSubmitCard(c, k)
    \/ UsInsert(c)
    \/ UsDelete(c)
    \/ Refresh(c)
SpecRooms == InitRooms /\ [][NextRooms]_vars

\* ------------------------------------------------------------------ claims
StepOf(c) == pc'[c] # pc[c] \/ loc'[c] # loc[c]
InSelectWinner(c) == pc[c] \in {"sw_score", "sw_award", "sw_complete"}
AllReturned == \A c \in Tabs : pc[c] = "idle"

\* C1: the room never has more than one round with status 'submitting'.
C1_OneSubmittingRound == Cardinality(SubmittingRounds) <= 1
\* a tab is about to insert a round while another tab's round is submitting
C1_Witness ==
  /\ Len(rounds) >= 2
  /\ SubmittingRounds # {}
  /\ \E c \in Tabs : pc[c] = "car_insert"

\* C2: once all concurrent createActiveRound calls have returned, exactly one
\* submitting round exists, exactly one call's insert was accepted, and the
\* round's judge is that call's judge argument.
C2_OneRoundOfTheWinner ==
  AllReturned =>
    /\ Cardinality(SubmittingRounds) = 1
    /\ Cardinality({c \in Tabs : won[c] # 0}) = 1
    /\ \A r \in SubmittingRounds : \A c \in Tabs :
         won[c] # 0 => rounds[r].judge = won[c]
C2_Witness ==
  /\ AllReturned
  /\ Len(rounds) = 1
  /\ \E c \in Tabs : won[c] = NumPlayers /\ rounds[1].judge = NumPlayers
  /\ \E c \in Tabs : won[c] = 0

\* C3: after two tabs of the judge have run selectWinner on round 1, the
\* winner's score is exactly one higher than before (it was 0).
C3_OnePointPerRound ==
  (/\ Len(rounds) >= 1
   /\ rounds[1].status = "completed"
   /\ \A c \in Tabs : ~ InSelectWinner(c))
  => score[rounds[1].winner] = 1

\* C4: a caller whose conditional round update matched no row changes no
\* hand, no judge flag and no round afterwards.
C4_LoserWritesNothing ==
  [][\A c \in Tabs :
       (loc[c].matched = FALSE /\ StepOf(c))
       => (hands' = hands /\ isJudge' = isJudge /\ rounds' = rounds)]_vars

\* C5: a completed round keeps its status and its winner, and stays in the
\* store, through every later step of any client.
C5_CompletedIsFinal ==
  [][\A r \in DOMAIN rounds :
       rounds[r].status = "completed"
       => /\ r \in DOMAIN rounds'
          /\ rounds'[r].status = "completed"
          /\ rounds'[r].winner = rounds[r].winner]_vars

\* C6: each round's judge is the roster successor of the previous round's
\* judge, and a different player.
C6_JudgeRotates ==
  \A r \in DOMAIN rounds :
    r + 1 \in DOMAIN rounds =>
      /\ rounds[r + 1].judge = NextJudge(Roster, rounds[r].judge)
      /\ rounds[r + 1].judge # rounds[r].judge

\* C7: no submission belongs to the judge of its own round.
C7_NoJudgeSubmission ==
  \A s \in DOMAIN subs : subs[s].profile # rounds[subs[s].round].judge
\* a submission was just inserted into a submitting round whose judge's
\* is_judge flag is false
C7_Witness ==
  \E c \in Tabs :
    /\ pc[c] = "sc_delete"
    /\ rounds[cache[c].round].status = "submitting"
    /\ isJudge[rounds[cache[c].round].judge] = FALSE

\* C8: each white card is in the hand of at most one player of the room.
C8_CardInOneHand ==
  \A k \in Cards : Cardinality({p \in Players : k \in HandOf(p)}) <= 1

\* C9: no step inserts into a hand a card that a submission has removed
\* from a hand since the last deal.
C9_ConsumedNeverDealt ==
  [][\A h \in hands' \ hands : h.card \notin consumed]_vars

\* C10: the store never holds two submissions of one player for one round.
C10_OneSubmissionPerPlayer ==
  \A s, t \in DOMAIN subs :
    (subs[s].round = subs[t].round /\ subs[s].profile = subs[t].profile)
    => s = t

\* C11: a start attempt on a room with fewer than MinPlayers members changes
\* neither the room status nor scores, judge flags, hands or rounds.
StartsShort(c) ==
  /\ pc[c] = "idle"
  /\ pc'[c] \in {"sg_scores", "ug_players"}
  /\ Cardinality(members) < MinPlayers
C11_ShortStartChangesNothing ==
  [][\A c \in Tabs :
       (StartsShort(c) \/ (loc[c].short /\ StepOf(c)))
       => UNCHANGED <<roomStatus, score, isJudge, hands, rounds>>]_vars

\* C12: once GamePage.startGame has returned, the room is playing, every
\* score is 0, every player holds exactly HandSize cards, no card is in two
\* hands, and the only round is submitting with the first-joined player as
\* judge.
C12_StartPostcondition ==
  (roomStatus = "playing" /\ AllReturned) =>
    /\ \A p \in members : score[p] = 0
    /\ \A p \in members : Cardinality(HandOf(p)) = HandSize
    /\ \A p, q \in members : p # q => HandOf(p) \cap HandOf(q) = {}
    /\ Len(rounds) = 1
    /\ rounds[1].status = "submitting"
    /\ rounds[1].judge = Roster[1]
C12_Witness ==
  /\ roomStatus = "playing"
  /\ AllReturned
  /\ Len(rounds) = 1
  /\ \A c \in Tabs : cache[c].round = 1

\* C13: a gameUtils.selectWinner call by a client that is not the judge of
\* the round it names changes no round and no score.
C13_WrongJudgeChangesNothing ==
  [][\A c \in Tabs :
       (/\ loc[c].round # 0
        /\ rounds[loc[c].round].judge # user[c]
        /\ StepOf(c))
       => (rounds' = rounds /\ score' = score)]_vars

\* C14: no player's hand ever holds more than HandSize cards.
C14_HandWithinTarget ==
  \A p \in Players : Cardinality(HandOf(p)) <= HandSize

\* C15: a playing room whose last round is completed, with no submitting
\* round and no client inside a handler, eventually gets a new submitting
\* round whose judge follows the completed round's judge.
Stalled ==
  /\ roomStatus = "playing"
  /\ rounds # << >>
  /\ rounds[Len(rounds)].status = "completed"
  /\ \A c \in Tabs : pc[c] \in {"idle", "closed"}
Recovered ==
  \E r \in SubmittingRounds :
    r > 1 /\ rounds[r].judge = NextJudge(Roster, rounds[r - 1].judge)
C15_StalledRoomRecovers == Stalled ~> Recovered

\* C16: once P2 and P3 have submitted in round 1 and judge P1 has picked
\* P2's submission, eventually P2's score is 1, round 1 is completed with
\* winner P2, and a submitting round with judge P2 exists.
Picked ==
  /\ Len(subs) = 2
  /\ pc[1] = "sw_score"
  /\ loc[1].winner = 2
Advanced ==
  /\ score[2] = 1
  /\ rounds[1].status = "completed"
  /\ rounds[1].winner = 2
  /\ \E r \in SubmittingRounds : rounds[r].judge = 2
C16_PickLeadsToNextRound == Picked ~> Advanced
C16_Witness == Advanced /\ Len(subs) = 2 /\ AllReturned

\* C17: when nextRound reads a roster that no longer holds the judge of the
\* last completed round, it goes on with the player at roster index 0 as
\* the next judge.
C17_DepartedJudgeFallsBack ==
  [][\A c \in Tabs :
       (/\ pc[c] = "nr_players"
        /\ Roster # << >>
        /\ loc[c].prev \notin members
        /\ StepOf(c))
       => (pc'[c] = "nr_hand" /\ loc'[c].judge = Roster[1])]_vars

\* C18: a createActiveRound call whose verification of the is_judge flag
\* fails still goes on to insert its round.
C18_FlagFailureStillInserts ==
  [][\A c \in Tabs :
       (/\ pc[c] = "car_verify"
        /\ ~ (loc[c].judge \in members /\ isJudge[loc[c].judge])
        /\ StepOf(c))
       => pc'[c] = "car_insert"]_vars

\* C19: a submitCard call whose card is no longer in the caller's hand
\* creates no submission and ends as a failure, without the hand delete.
C19_AbsentCardNotSubmitted ==
  [][\A c \in Tabs :
       (/\ pc[c] = "sc_insert"
        /\ loc[c].card \notin HandOf(user[c])
        /\ StepOf(c))
       => (subs' = subs /\ pc'[c] = "idle")]_vars

\* C20: every submission row that a step creates belongs to a round whose
\* status is 'submitting' at that step, whatever round the client has cached.
C20_NoSubmissionToCompletedRound ==
  [][\A s \in DOMAIN subs' \ DOMAIN subs :
       /\ subs'[s].round \in DOMAIN rounds
       /\ rounds[subs'[s].round].status = "submitting"]_vars
\* a submitCard call is about to insert for its cached round, which another
\* client has completed meanwhile
C20_Witness ==
  \E c \in Tabs :
    /\ pc[c] = "sc_insert"
    /\ cache[c].round \in DOMAIN rounds
    /\ rounds[cache[c].round].status = "completed"
    /\ user[c] \in members
    /\ isJudge[user[c]] = FALSE

\* C21: a createActiveRound call that loses the creation race (its pre-check
\* finds a submitting round, or its insert is rejected by the unique index)
\* raises no error, inserts no round, and returns the existing submitting
\* round to its caller.
LosesRace(c) ==
  \/ pc[c] = "car_check" /\ SubmittingRounds # {}
  \/ pc[c] = "car_insert" /\ ~ RoundInsertAccepted
C21_LoserReturnsExistingRound ==
  [][\A c \in Tabs :
       (LosesRace(c) /\ StepOf(c))
       => (/\ rounds' = rounds
           /\ pc'[c] = "refresh"
           /\ loc'[c].ret \in SubmittingRounds)]_vars
\* the first two parts alone: no error and no insert
C21_LoserInsertsNothing ==
  [][\A c \in Tabs :
       (LosesRace(c) /\ StepOf(c))
       => (rounds' = rounds /\ pc'[c] = "refresh")]_vars

\* C22: a GamePage.startGame call on a room whose deck has fewer than
\* HandSize * (number of players) white cards leaves room status, scores,
\* hands and rounds as they were.
InStartGame(c) ==
  \/ pc[c] = "idle" /\ pc'[c] = "sg_scores"
  \/ pc[c] \in {"sg_scores", "sg_clear", "sg_deal"} /\ StepOf(c)
C22_ShortDeckStartChangesNothing ==
  [][\A c \in Tabs :
       (/\ Cardinality(deck) < Len(cache[c].players) * HandSize
        /\ InStartGame(c))
       => UNCHANGED <<roomStatus, score, hands, rounds>>]_vars

\* C23: once the room's status is 'playing', no step sets it to anything
\* else; the status only moves from 'waiting' to 'playing'.
C23_StatusNeverReverts ==
  [][/\ roomStatus = "playing" => roomStatus' = "playing"
     /\ roomStatus' \in {roomStatus, "playing"}]_vars
\* a start runs on a room that is already playing (the host's page still
\* shows the waiting room)
C23_Witness ==
  /\ roomStatus = "playing"
  /\ rounds # << >>
  /\ \E c \in Tabs : pc[c] \in {"sg_scores", "ug_players"}

\* C24: a loadGameData pass, whether run by the polling timer between
\* handlers (no tab's position or locals change) or as the refresh that ends
\* a handler, changes no row of rooms, room_players, rounds, submissions or
\* player_hands.
C24_LoadGameDataReadOnly ==
  [][(\/ \A c \in Tabs : pc'[c] = pc[c] /\ loc'[c] = loc[c]
      \/ \E c \in Tabs : pc[c] = "refresh" /\ StepOf(c))
     => UNCHANGED store]_vars
\* player 2's idle tab has polled after the round was completed, while
\* another tab is in the middle of a handler
C24_Witness ==
  /\ CompletedRounds # {}
  /\ \E c, d \in Tabs :
       /\ user[c] = 2
       /\ pc[c] = "idle"
       /\ cache[c].round = 0
       /\ pc[d] # "idle"

\* C25: whenever round k has a successor, round k is completed and its
\* winner's stored score already counts the point for round k (and for every
\* earlier round the same player won).
WinsUpTo(p, k) == Cardinality({j \in 1..k : rounds[j].winner = p})
C25_PointBeforeNextRound ==
  \A k \in DOMAIN rounds :
    (k + 1) \in DOMAIN rounds =>
      /\ rounds[k].status = "completed"
      /\ rounds[k].winner \in members
      /\ score[rounds[k].winner] >= WinsUpTo(rounds[k].winner, k)
\* round 2 exists after the two tabs of the judge picked different winners
\* for round 1
C25_Witness ==
  /\ Len(rounds) >= 2
  /\ \E p, q \in Players : p # q /\ score[p] >= 1 /\ score[q] >= 1

\* C26: in the selectWinner of src/unnamed/part_003, a caller whose
\* conditional round update returned no row has not changed the winner's
\* score.
C26_LoserAwardsNothing ==
  [][\A c \in Tabs :
       (/\ pc[c] = "pw_complete"
        /\ SwCompleteRows(cache[c].round) = {}
        /\ StepOf(c))
       => ~ loc[c].changed]_vars

\* C27: in src/unnamed/part_003, a loadGameData pass over a stored hand of
\* more than HandSize rows goes on to delete rows; no step removes any of
\* the first HandSize rows (by id) of any hand, and when the pass completes
\* the viewer's stored hand has exactly HandSize rows.
C27_TrimKeepsFirstRows ==
  [][/\ \A p \in Players :
          /\ HandOf(p)' \subseteq HandOf(p)
          /\ FirstOf(HandOf(p)', HandSize) = FirstOf(HandOf(p), HandSize)
     /\ \A c \in Tabs :
          /\ (pc[c] = "pl_trim" /\ pc'[c] = "idle")
               => Cardinality(HandOf(user[c])') = HandSize
          /\ (/\ pc[c] = "idle"
              /\ Cardinality(HandOf(user[c])) > HandSize
              /\ cache'[c] # cache[c])
               => pc'[c] = "pl_trim"]_vars
\* a pass has deleted a row of a hand that held two rows too many and has
\* one more to delete
C27_Witness ==
  \E c \in Tabs :
    /\ pc[c] = "pl_trim"
    /\ Cardinality(loc[c].del) = 1
    /\ loc[c].del \subseteq HandOf(user[c])
    /\ Cardinality(HandOf(user[c])) = HandSize + 1
    /\ Cardinality(cache[c].hand) = HandSize
    /\ \E d \in Tabs : pc[d] = "idle" /\ cache[d].hand = HandOf(user[d])

\* C28: the replenish loop of GamePage.nextRound is a no-op on a full hand:
\* its step for a player who already holds HandSize cards neither inserts
\* nor deletes a player_hands row and draws no card to insert.
C28_FullHandNotReplenished ==
  [][\A c \in Tabs :
       (/\ pc[c] = "nr_hand"
        /\ Cardinality(HandOf(loc[c].players[loc[c].i])) >= HandSize
        /\ StepOf(c))
       => (/\ hands' = hands
           /\ pc'[c] # "nr_insert"
           /\ loc'[c].add = {})]_vars
\* one tab's loop has run to its end and a second tab's loop is at its last
\* player, with every hand full
C28_Witness ==
  /\ \A p \in members : Cardinality(HandOf(p)) = HandSize
  /\ \E c, d \in Tabs :
       /\ pc[d] \in {"nr_clear", "nr_set", "car_check"}
       /\ pc[c] = "nr_hand"
       /\ loc[c].i = Len(loc[c].players)

\* C29: once a GamePage.nextRound that ran alone has created the next
\* round, every player of the roster, the previous and the new judge
\* included, holds exactly HandSize cards.
C29_AllHandsFullAfterNextRound ==
  Len(rounds) >= 2 =>
    \A p \in members : Cardinality(HandOf(p)) = HandSize
\* round 2 exists after a nextRound that found two hands short
C29_Witness ==
  /\ Len(rounds) = 2
  /\ Len(subs) = 2
  /\ pc[1] = "idle"
  /\ rounds[2].judge = 2

\* C30: the store writes of a GamePage.submitCard by player p with card k
\* in round r add the one submission (r, p, k) and remove k from p's hand;
\* every other player's hand, all scores, all judge flags, the roster, the
\* room and the rounds are unchanged.
C30_SubmitFrame ==
  [][\A c \in Tabs :
       (pc[c] \in {"sc_insert", "sc_delete"} /\ StepOf(c)) =>
         /\ UNCHANGED <<roomStatus, members, score, isJudge, rounds>>
         /\ \A p \in Players \ {user[c]} : HandOf(p)' = HandOf(p)
         /\ pc[c] = "sc_insert" =>
              /\ hands' = hands
              /\ \/ subs' = subs /\ pc'[c] = "idle"
                 \/ /\ subs' = Append(subs, [round |-> cache[c].round,
                                             profile |-> user[c],
                                             card |-> loc[c].card])
                    /\ pc'[c] = "sc_delete"
         /\ pc[c] = "sc_delete" =>
              /\ subs' = subs
              /\ HandOf(user[c])' = HandOf(user[c]) \ {loc[c].card}]_vars
\* player 2's submitCard has inserted its submission and removed the card
C30_Witness ==
  \E c \in Tabs :
    /\ user[c] = 2
    /\ pc[c] = "refresh"
    /\ \E s \in DOMAIN subs :
         /\ subs[s].profile = 2
         /\ subs[s].card = loc[c].card
         /\ subs[s].card \notin HandOf(2)

\* C31: whenever a submitCard call has made its last store write or has
\* failed, the submission (round, player, card) of the call exists if and
\* only if the card is no longer in the player's hand.
\* (one tab per player: the only submission of the player is the call's own)
C31_SubmitAllOrNothing ==
  [][\A c \in Tabs :
       (pc[c] \in {"sc_insert", "sc_delete"} /\ pc'[c] \in {"idle", "refresh"})
         => ((\E s \in DOMAIN subs' :
                subs'[s] = [round |-> cache[c].round, profile |-> user[c],
                            card |-> loc[c].card])
             <=> loc[c].card \notin HandOf(user[c])')]_vars

\* C32: the judge of the round that nextRound creates is the join-order
\* successor of the judge of the most recent completed round, whatever the
\* is_judge flags of room_players were when nextRound started (so two runs
\* from stores that differ only in these flags create the same judge's
\* round), and a nextRound that runs alone ends with the round created.
C32_JudgeFromLastRoundOnly ==
  /\ \A r \in DOMAIN rounds :
       r > 1 => rounds[r].judge =
                  Roster[(IndexOf(Roster, rounds[r - 1].judge) % Len(Roster)) + 1]
  /\ \A c \in Tabs : pc[c] = "idle" => Len(rounds) = 2
\* nextRound has created round 2 in a run in which, when it started, the
\* is_judge flag of the previous round's judge was false
C32_Witness ==
  \E c \in Tabs :
    /\ pc[c] = "idle"
    /\ Len(rounds) = 2
    /\ won[c] = rounds[2].judge
    /\ cache[c].flag = FALSE

\* C33: whenever the room has a submitting round and every client is between
\* handlers, exactly one member has is_judge = true, and that member is the
\* judge of the submitting round.
C33_FlagMatchesRoundJudge ==
  (SubmittingRounds # {} /\ \A c \in Tabs : pc[c] \in {"idle", "closed"})
    => \A r \in SubmittingRounds :
         {p \in members : isJudge[p]} = {rounds[r].judge}

\* C34: a round leaves the status 'submitting' only in the round update of
\* a selectWinner call made for that round by the round's judge, and it
\* becomes 'completed'; no other step (polling, submit, replenish, round
\* creation) changes the status of a submitting round or removes the round.
C34_OnlySelectWinnerCompletes ==
  [][\A r \in DOMAIN rounds :
       (rounds[r].status = "submitting" /\
          (r \notin DOMAIN rounds' \/ rounds'[r].status # "submitting"))
       => /\ r \in DOMAIN rounds'
          /\ rounds'[r].status = "completed"
          /\ \E c \in Tabs : /\ pc[c] = "sw_complete"
                             /\ pc'[c] = "nr_check"
                             /\ cache[c].round = r
                             /\ user[c] = rounds[r].judge]_vars
\* the judge's selectWinner has completed round 1 while a later round, made
\* by nextRound, is submitting and untouched
C34_Witness ==
  /\ Len(rounds) = 2
  /\ rounds[1].status = "completed"
  /\ rounds[2].status = "submitting"
  /\ \A c \in Tabs : pc[c] = "idle"

\* the sum of the stored scores of the players in S
RECURSIVE TotalScore(_)
TotalScore(S) ==
  IF S = {} THEN 0
  ELSE LET p == CHOOSE x \in S : TRUE IN score[p] + TotalScore(S \ {p})
\* C35: (no startGame runs after the start of the game) in every state in
\* which no selectWinner is in progress, the players' scores add up to the
\* number of completed rounds.
C35_ScoresCountCompletedRounds ==
  (\A c \in Tabs : ~ InSelectWinner(c))
    => TotalScore(members) = Cardinality(CompletedRounds)

C37_TwoStartsDealOnce ==
  (\A c \in Tabs : user[c] = Host =>
                     pc[c] = "idle" /\ cache[c].status = "playing")
    => /\ \A p \in members : Cardinality(HandOf(p)) = HandSize
       /\ Cardinality(SubmittingRounds) = 1

\* C38: a nextRound whose first read finds a submitting round in the room
\* goes straight to loadGameData and returns: neither step writes to the
\* store (no hand row, no judge flag, no round).
C38_NextRoundGuardWritesNothing ==
  [][\A c \in Tabs :
       /\ (pc[c] = "nr_check" /\ SubmittingRounds # {} /\ StepOf(c))
            => (pc'[c] = "refresh" /\ loc'[c] = loc[c] /\ UNCHANGED store)
       /\ (pc[c] = "refresh" /\ loc[c].from = "" /\ loc[c].winner # 0
             /\ StepOf(c))
            => (pc'[c] = "idle" /\ UNCHANGED store)]_vars
\* a nextRound scheduled by selectWinner found the round another client had
\* created and is about to reload
C38_Witness ==
  \E c \in Tabs :
    /\ pc[c] = "refresh"
    /\ loc[c].from = ""
    /\ loc[c].winner # 0
    /\ SubmittingRounds # {}
    /\ Len(rounds) = 2

\* C39: the hand delete of a submitCard call (gameUtils.submitCard and
\* GamePage.submitCard) for a round of the room leaves the player_hands
\* rows of every other room unchanged.
C39_OtherRoomsUntouched ==
  [][\A c \in Tabs :
       (pc[c] \in {"us_delete", "sc_delete"} /\ StepOf(c))
         => {h \in hands' : h.room # RoomId} = {h \in hands : h.room # RoomId}]_vars

====
